---- MODULE Spec2Model ----
(***************************************************************************)
(* A model of the chart construction of ghgdash:                           *)
(*   components/graphs.py  PredictionGraphSeries, PredictionGraph          *)
(*   pages/emissions.py    make_sector_fig                                 *)
(*                                                                         *)
(* A dataframe is a list of column names and a list of rows, one row per   *)
(* index year.  A Python dict is a function whose domain is its key set.   *)
(* An optional value is None (<<>>) or a one-element tuple <<v>>; NaN is   *)
(* what pandas gives for a missing cell and for the min/max of an empty    *)
(* index.  A color is a grey '#vvvvvv', written as its channel value v in  *)
(* 0..255; the luminance of a Color object is held in units of             *)
(* 1/LumScale, which keeps every product of graphs.py exact.               *)
(***************************************************************************)
EXTENDS Integers, Sequences, FiniteSets, TLC

VARIABLES
    graph,                \* the PredictionGraph's constructor fields
    series_list,          \* PredictionGraph.series_list
    min_year,             \* PredictionGraph.min_year
    max_year,             \* PredictionGraph.max_year
    forecast_start_year,  \* PredictionGraph.forecast_start_year
    call,                 \* the last call made and its arguments
    raised,               \* the exception the last call raised, "" if none
    fig,                  \* the figure the last call returned, None if none
    sector                \* make_sector_fig: its arguments and loop position

vars == <<graph, series_list, min_year, max_year, forecast_start_year,
          call, raised, fig, sector>>

---------------------------------------------------------------------------
(* Bounds of the model *)

\* index years of the detailed frames: FirstYear .. FirstYear + NumYears - 1
NumYears == 4
\* index years of the long frames: FirstYear .. FirstYear + TickSpan - 1
TickSpan == 14
\* add_series calls per graph
MaxSeries == 2
\* index years of the frames of multi-series graphs
SpanYears == 2
\* subsector columns of a sector dataframe
MaxSubsectors == 6

FirstYear == 2008

---------------------------------------------------------------------------
(* Python values *)

None == <<>>
NaN  == <<0, 0>>

Some(v) == <<v>>

\* a < b on numbers where either may be NaN (every comparison with NaN is False)
Lt(a, b) == a # NaN /\ b # NaN /\ a[1] < b[1]

SetMin(S) == CHOOSE m \in S : \A y \in S : m <= y
SetMax(S) == CHOOSE m \in S : \A y \in S : m >= y

Range(s) == {s[i] : i \in DOMAIN s}

\* list.remove(x): the list without the first x, or the ValueError when the
\* list holds no x
Remove(s, x) ==
    IF \A i \in DOMAIN s : s[i] # x THEN [raised |-> "ValueError"]
    ELSE LET k == CHOOSE i \in DOMAIN s : s[i] = x /\ \A j \in 1..(i - 1) : s[j] # x
         IN  [raised |-> "",
              list |-> [i \in 1..(Len(s) - 1) |-> IF i < k THEN s[i] ELSE s[i + 1]]]

Digits == <<"0", "1", "2", "3", "4", "5", "6", "7", "8", "9">>

\* str(n) for n >= 0, as the list of its characters
RECURSIVE Str(_)
Str(n) == IF n < 10 THEN <<Digits[n + 1]>>
          ELSE Str(n \div 10) \o <<Digits[(n % 10) + 1]>>

---------------------------------------------------------------------------
(* Dataframes *)

Row(y, fc, cells) == [Year |-> y, Forecast |-> fc, cells |-> cells]

\* df.index after set_index('Year'), as optional numbers
IndexYears(df) == {df.rows[i].Year : i \in DOMAIN df.rows}
IndexMin(df) == IF df.rows = <<>> THEN NaN ELSE Some(SetMin(IndexYears(df)))
IndexMax(df) == IF df.rows = <<>> THEN NaN ELSE Some(SetMax(IndexYears(df)))

\* df.loc[~df.Forecast].index.max()
LastHistoricalYear(df) ==
    LET H == {df.rows[i].Year : i \in {j \in DOMAIN df.rows : ~df.rows[j].Forecast}}
    IN  IF H = {} THEN NaN ELSE Some(SetMax(H))

---------------------------------------------------------------------------
(* PredictionGraphSeries *)

\* truth of an optional string and of an optional number
TruthyStr(opt) == opt # None /\ opt[1] # ""
TruthyNum(opt) == opt # None /\ opt[1] # 0

Raise(exc) == [raised |-> exc]

\* df.set_index('Year') on a frame with a Year column: Year leaves the columns
SetIndexYear(df) == [df EXCEPT !.columns = Remove(@, "Year").list]

\* a __post_init__ whose asserts do nothing: remove raises the ValueError when
\* Forecast is missing, and the first remaining column is taken
PostInitNoCount(df, column_name) ==
    LET no_fc == Remove(df.columns, "Forecast") IN
    IF no_fc.raised # "" THEN Raise(no_fc.raised)
    ELSE
    LET has_year == "Year" \in Range(no_fc.list)
        df2      == IF has_year THEN SetIndexYear(df) ELSE df
        cols     == IF has_year THEN Remove(no_fc.list, "Year").list ELSE no_fc.list
    IN  IF ~TruthyStr(column_name)
        THEN IF cols = <<>> THEN Raise("IndexError")
             ELSE [raised |-> "", df |-> df2, column_name |-> Some(cols[1])]
        ELSE [raised |-> "", df |-> df2, column_name |-> column_name]

\* PredictionGraphSeries.__post_init__: the dataframe indexed by Year and the
\* column to plot, or the AssertionError
PostInit(df, column_name) ==
    IF "Forecast" \notin Range(df.columns) THEN Raise("AssertionError")
    ELSE
    LET no_fc    == Remove(df.columns, "Forecast").list
        has_year == "Year" \in Range(no_fc)
        df2      == IF has_year THEN SetIndexYear(df) ELSE df
        cols     == IF has_year THEN Remove(no_fc, "Year").list ELSE no_fc
    IN  IF ~TruthyStr(column_name)
        THEN IF Len(cols) # 1 THEN Raise("AssertionError")
             ELSE [raised |-> "", df |-> df2, column_name |-> Some(cols[1])]
        ELSE [raised |-> "", df |-> df2, column_name |-> column_name]

\* the dataclass fields of a constructed series
Series(post, trace_name, historical_color, forecast_color, luminance_change) ==
    [df |-> post.df, trace_name |-> trace_name, column_name |-> post.column_name,
     historical_color |-> historical_color, forecast_color |-> forecast_color,
     luminance_change |-> luminance_change]

(* Colors.  Luminance is counted in units of 1/LumScale; a grey channel v   *)
(* has luminance v/255 = 100 v / LumScale.  luminance_change is counted in  *)
(* tenths.                                                                  *)
LumScale == 255 * 100

\* utils.colors.GHG_MAIN_SECTOR_COLORS, as grey levels
GHG_MAIN_SECTOR_COLORS ==
    [s \in {"BuildingHeating", "Transportation", "ElectricityConsumption"} |->
        CASE s = "BuildingHeating" -> 60
          [] s = "Transportation" -> 130
          [] OTHER -> 255]

\* Color(hex).get_luminance()
Luminance(v) == v * 100

\* Color.hex after set_luminance(l): hsl2rgb refuses a lightness outside [0, 1],
\* rgb2hex takes int(c * 255 + 0.5 - FLOAT_ERROR) of each channel
Hex(l) == IF l < 0 \/ l > LumScale THEN Raise("ValueError")
          ELSE [raised |-> "", color |-> (l + 49) \div 100]

\* the luminance_change branch of get_color
ChangeLuminance(l, change) ==
    IF change < 0 THEN (l * (10 + change)) \div 10
    ELSE l + ((LumScale - l) * change) \div 10

\* "Lighten forecast series by 30 %"
Lighten(l) == l + ((LumScale - l) * 3) \div 10

\* PredictionGraphSeries.get_color
get_color(g, series, forecast) ==
    LET given == IF forecast THEN series.forecast_color ELSE series.historical_color
    IN  IF given # None
        THEN [raised |-> "", color |-> given[1]]
        ELSE
        LET base == IF forecast /\ series.historical_color # None
                    THEN Luminance(series.historical_color[1])
                    ELSE Luminance(GHG_MAIN_SECTOR_COLORS[g.sector_name])
            l1   == IF TruthyNum(series.luminance_change)
                    THEN ChangeLuminance(base, series.luminance_change[1])
                    ELSE base
            l2   == IF forecast THEN Lighten(l1) ELSE l1
        IN  Hex(l2)

---------------------------------------------------------------------------
(* PredictionGraph.get_traces_for_series *)

\* d[k] = v on a dict
Set(d, k, v) == (k :> v) @@ d

EmptyDict == <<>>

\* utils.data.find_consecutive_start: the first year of the run of consecutive
\* years that ends the (ascending) index
find_consecutive_start(rows) ==
    LET n == Len(rows)
        k == CHOOSE i \in 1..n :
                /\ \A j \in i..(n - 1) : rows[j + 1].Year = rows[j].Year + 1
                /\ \A i2 \in 1..(i - 1) :
                      \E j \in i2..(n - 1) : rows[j + 1].Year # rows[j].Year + 1
    IN  rows[k].Year

StartYear(g, df) ==
    IF g.allow_nonconsecutive_years THEN IndexMin(df)[1]
    ELSE find_consecutive_start(df.rows)

\* a 'fill' entry that is 'tozeroy' at every index
FillAttrsNoStack(g, index) ==
    IF g.stacked \/ g.fill THEN [fill |-> "tozeroy"] ELSE EmptyDict

\* the 'fill' entry of trace_attrs
FillAttrs(g, index) ==
    IF g.stacked \/ g.fill
    THEN IF g.stacked /\ index > 0 THEN [fill |-> "tonexty"] ELSE [fill |-> "tozeroy"]
    ELSE EmptyDict

ModeAttrs(g) == IF g.fill THEN [mode |-> "none"] ELSE [mode |-> "lines"]

\* the mask of the historical rows
IsHistorical(row, start_year) == ~row.Forecast /\ row.Year >= start_year

\* a forecast mask without the last historical year
IsForecastOnly(row, last_hist_year) == row.Forecast

\* the mask of the forecast rows when there is a historical trace: the forecast
\* line starts at the last historical year
IsForecast(row, last_hist_year) == row.Forecast \/ row.Year = last_hist_year

\* rows[y_column].dropna(), as the list of the rows kept
DropNa(rows, y_column) == SelectSeq(rows, LAMBDA r : r.cells[y_column] # NaN)

\* a ** that passes the dict itself, later writes included
KwargsAlias(at_call, at_return) == at_return

\* what ** passes: the entries the dict holds at the call
Kwargs(at_call, at_return) == at_call

\* traces.insert(0, forecast_trace)
PlaceForecast(traces, forecast_trace) == <<forecast_trace>> \o traces

Trace(selected, y_column, name, hovertemplate, line, trace_attrs) ==
    [type |-> "scatter",
     x |-> [i \in DOMAIN selected |-> Str(selected[i].Year)],
     y |-> [i \in DOMAIN selected |-> selected[i].cells[y_column][1]],
     name |-> name,
     hovertemplate |-> hovertemplate,
     line |-> line] @@ trace_attrs

\* hovertemplate = '%{x}: %{y}', with the unit when there is one
HoverTemplate(g) ==
    IF TruthyStr(g.unit_name) THEN "%{x}: %{y}" \o " " \o g.unit_name[1]
    ELSE "%{x}: %{y}"

\* line_attrs as first built
LineAttrs(g) ==
    IF g.smoothing THEN [width |-> 4, smoothing |-> 1, shape |-> "spline"]
    ELSE [width |-> 4]

\* trace_attrs when the series has a historical part: its stackgroup and fillcolor
HistoricalAttrs(g, attrs, color) ==
    LET a == IF g.stacked THEN Set(attrs, "stackgroup", "history") ELSE attrs
    IN  IF g.fill THEN Set(a, "fillcolor", color) ELSE a

\* trace_attrs when the series has a forecast part
ForecastAttrs(g, attrs, color) ==
    LET a == IF g.stacked THEN Set(attrs, "stackgroup", "forecast") ELSE attrs
    IN  IF g.fill THEN Set(a, "fillcolor", color) ELSE a

\* line_attrs when the series has a forecast part
ForecastLineAttrs(g, line_attrs) ==
    IF g.fill THEN line_attrs ELSE Set(line_attrs, "dash", "dash")

\* the forecast block: from the historical trace (or none) and the dicts as the
\* historical block left them, the list of traces returned
ForecastBlock(g, series, hist_series, hist_color, attrs1) ==
    LET df == series.df
        y_column == series.column_name[1]
        selected ==
            IF hist_series # <<>>
            THEN DropNa(SelectSeq(df.rows, LAMBDA r :
                     IsForecast(r, SetMax({hist_series[i].Year : i \in DOMAIN hist_series}))),
                     y_column)
            ELSE DropNa(SelectSeq(df.rows, LAMBDA r : r.Forecast), y_column)
    IN
    IF selected = <<>>
    THEN [raised |-> "",
          traces |-> IF hist_series = <<>> THEN <<>>
                     ELSE <<Trace(hist_series, y_column, series.trace_name,
                                  HoverTemplate(g),
                                  Set(LineAttrs(g), "color", hist_color), attrs1)>>]
    ELSE
    LET fcolor == get_color(g, series, TRUE) IN
    IF fcolor.raised # "" THEN Raise(fcolor.raised)
    ELSE
    LET attrs2 == ForecastAttrs(g, attrs1, fcolor.color)
        line2  == ForecastLineAttrs(g, LineAttrs(g))
        hist_traces ==
            IF hist_series = <<>> THEN <<>>
            ELSE <<Trace(hist_series, y_column, series.trace_name, HoverTemplate(g),
                         Set(Kwargs(LineAttrs(g), line2), "color", hist_color),
                         Kwargs(attrs1, attrs2))>>
    IN  [raised |-> "",
         traces |-> PlaceForecast(hist_traces,
                        Trace(selected, y_column, series.trace_name \o " (enn.)",
                              HoverTemplate(g), Set(line2, "color", fcolor.color),
                              attrs2))]

\* the historical block, then the forecast block
HistoricalBlock(g, series, attrs0, hist_series) ==
    IF hist_series = <<>> THEN ForecastBlock(g, series, hist_series, None, attrs0)
    ELSE
    LET hcolor == get_color(g, series, FALSE) IN
    IF hcolor.raised # "" THEN Raise(hcolor.raised)
    ELSE ForecastBlock(g, series, hist_series, hcolor.color,
                       HistoricalAttrs(g, attrs0, hcolor.color))

\* PredictionGraph.get_traces_for_series
get_traces_for_series(g, series, index) ==
    IF series.column_name[1] \notin Range(series.df.columns) THEN Raise("KeyError")
    ELSE HistoricalBlock(g, series, ModeAttrs(g) @@ FillAttrs(g, index),
             DropNa(SelectSeq(series.df.rows,
                        LAMBDA r : IsHistorical(r, StartYear(g, series.df))),
                    series.column_name[1]))

---------------------------------------------------------------------------
(* PredictionGraph.add_series and get_figure *)

\* a forecast-start update with the comparison turned round
UpdateLatest(current, fstart) ==
    IF current = None \/ Lt(current, fstart) THEN fstart ELSE current

\* if self.min_year is None or df.index.min() < self.min_year
UpdateMin(current, index_min) ==
    IF current = None \/ Lt(index_min, current) THEN index_min ELSE current

\* if self.max_year is None or df.index.max() > self.max_year
UpdateMax(current, index_max) ==
    IF current = None \/ Lt(current, index_max) THEN index_max ELSE current

\* if self.forecast_start_year is None or fstart < self.forecast_start_year
UpdateForecastStart(current, fstart) ==
    IF current = None \/ Lt(fstart, current) THEN fstart ELSE current

\* a thinning test that does not spare forecast_start_year and max_year
TickSkippedNoAnchor(year, tick_vals, fstart, last_year) ==
    /\ tick_vals # <<>>
    /\ year - tick_vals[Len(tick_vals)] < 3 \/ year % 5 # 0

\* a thinning test without the distance to the tick before
TickSkippedNoGap(year, tick_vals, fstart, last_year) ==
    /\ Some(year) # fstart /\ tick_vals # <<>> /\ year # last_year
    /\ year % 5 # 0

\* whether the tick loop passes over year (the two continue statements)
TickSkipped(year, tick_vals, fstart, last_year) ==
    /\ Some(year) # fstart /\ tick_vals # <<>> /\ year # last_year
    /\ year - tick_vals[Len(tick_vals)] < 3 \/ year % 5 # 0

\* the loop over range(min_year, max_year + 1), from year on
RECURSIVE TickLoop(_, _, _, _, _)
TickLoop(year, last_year, fstart, tick_vals, tick_labels) ==
    IF year > last_year THEN [tickvals |-> tick_vals, ticklabels |-> tick_labels]
    ELSE IF TickSkipped(year, tick_vals, fstart, last_year)
         THEN TickLoop(year + 1, last_year, fstart, tick_vals, tick_labels)
         ELSE TickLoop(year + 1, last_year, fstart,
                       Append(tick_vals, year), Append(tick_labels, Str(year)))

\* traces += get_traces_for_series(series, idx, has_multiple), from idx on
RECURSIVE TracesFrom(_, _, _, _)
TracesFrom(g, list, idx, traces) ==
    IF idx >= Len(list) THEN [raised |-> "", traces |-> traces]
    ELSE LET got == get_traces_for_series(g, list[idx + 1], idx)
         IN  IF got.raised # "" THEN got
             ELSE TracesFrom(g, list, idx + 1, traces \o got.traces)

\* PredictionGraph.get_figure; range(min_year, max_year + 1) takes integers only
get_figure(g, list, first_year, last_year, fstart) ==
    IF first_year \in {None, NaN} \/ last_year \in {None, NaN} THEN Raise("TypeError")
    ELSE
    LET ticks == TickLoop(first_year[1], last_year[1], fstart, <<>>, <<>>)
        got   == TracesFrom(g, list, 0, <<>>)
    IN  IF got.raised # "" THEN got
        ELSE [raised |-> "",
              fig |-> [data |-> got.traces, layout |-> [xaxis |-> ticks]]]

\* PredictionGraph.add_series
add_series(df, trace_name, column_name, historical_color, forecast_color, luminance_change) ==
    /\ call' = [op |-> "add_series", df |-> df, column_name |-> column_name]
    /\ fig' = None
    /\ LET post == PostInit(df, column_name)
       IN  IF post.raised # ""
           THEN /\ raised' = post.raised
                /\ UNCHANGED <<series_list, min_year, max_year, forecast_start_year>>
           ELSE /\ raised' = ""
                /\ series_list' = Append(series_list,
                       Series(post, trace_name, historical_color, forecast_color,
                              luminance_change))
                /\ min_year' = UpdateMin(min_year, IndexMin(post.df))
                /\ max_year' = UpdateMax(max_year, IndexMax(post.df))
                /\ forecast_start_year' =
                       UpdateForecastStart(forecast_start_year,
                                           LastHistoricalYear(post.df))
    /\ UNCHANGED graph

\* a caller's graph.add_series(df=..., trace_name=..., column_name=..., ...)
AddSeries(df, trace_name, column_name, historical_color, forecast_color, luminance_change) ==
    /\ Len(series_list) < MaxSeries
    /\ add_series(df, trace_name, column_name, historical_color, forecast_color,
                  luminance_change)
    /\ UNCHANGED sector

\* PredictionGraph.get_figure, called on the graph
GetFigure ==
    /\ sector = None
    /\ call.op # "given"
    /\ call' = [op |-> "get_figure"]
    /\ LET got == get_figure(graph, series_list, min_year, max_year,
                             forecast_start_year)
       IN  /\ raised' = got.raised
           /\ fig' = IF got.raised = "" THEN Some(got.fig) ELSE None
    /\ UNCHANGED <<graph, series_list, min_year, max_year, forecast_start_year,
                   sector>>

\* graph.add_series(...) of a page that builds one graph from one dataframe, with
\* the arguments the page was given
AddGiven ==
    /\ call.op = "given"
    /\ add_series(call.df, call.trace_name, call.column_name, call.historical_color,
                  call.forecast_color, call.luminance_change)
    /\ UNCHANGED sector

\* PredictionGraph(...) with its __post_init__
NewGraph(sector_name, unit_name, smoothing, fill, stacked, allow) ==
    /\ graph = [sector_name |-> sector_name, unit_name |-> unit_name,
                smoothing |-> smoothing, fill |-> fill, stacked |-> stacked,
                allow_nonconsecutive_years |-> allow]
    /\ series_list = <<>>
    /\ min_year = None
    /\ max_year = None
    /\ forecast_start_year = None

---------------------------------------------------------------------------
(* Inputs *)

\* a frame of the years a..b, historical up to h, with every value present
RegularFrame(a, h, b) ==
    [columns |-> <<"Emissions", "Forecast">>,
     rows |-> [i \in 1..(b - a + 1) |->
                  Row(a + i - 1, a + i - 1 > h, [c \in {"Emissions"} |-> Some(1)])]]

RegularFrames(first, last) ==
    {RegularFrame(a, h, b) : a \in first..last, h \in (first - 1)..last,
                             b \in first..last}

---------------------------------------------------------------------------------------------------------------------------------------------
(* Spec: graphs of every stacking and filling, built from regular frames *)

Frames == {f \in RegularFrames(FirstYear, FirstYear + SpanYears - 1) : f.rows # <<>>}

Idle ==
    /\ call = [op |-> "init"]
    /\ raised = ""
    /\ fig = None
    /\ sector = None

Init ==
    /\ \E fill \in BOOLEAN, stacked \in BOOLEAN :
          NewGraph("Transportation", Some("kt"), FALSE, fill, stacked, FALSE)
    /\ Idle

Next ==
    \/ \E df \in Frames :
          AddSeries(df, "Emissions", Some("Emissions"), None, None, None)
    \/ GetFigure

Spec == Init /\ [][Next]_vars

-------------------------------------------------------------------------------------------------------------------------------------------
(* Pages that build one graph from one dataframe, as                      *)
(* electricity_consumption_callback does: PredictionGraph(...), one       *)
(* add_series, get_figure.                                                *)

Given(df, trace_name, column_name, historical_color, forecast_color, luminance_change) ==
    /\ call = [op |-> "given", df |-> df, trace_name |-> trace_name,
               column_name |-> column_name, historical_color |-> historical_color,
               forecast_color |-> forecast_color, luminance_change |-> luminance_change]
    /\ raised = ""
    /\ fig = None
    /\ sector = None

NextPage == AddGiven \/ GetFigure

RECURSIVE Ascending(_)
Ascending(S) == IF S = {} THEN <<>>
                ELSE <<SetMin(S)>> \o Ascending(S \ {SetMin(S)})

RowKinds == {"absent", "historical", "historical_null", "forecast", "forecast_null"}

\* a frame with one row for every year that is not absent
DetailedFrame(kinds) ==
    LET years == Ascending({y \in DOMAIN kinds : kinds[y] # "absent"})
    IN  [columns |-> <<"Emissions", "Forecast">>,
         rows |-> [i \in DOMAIN years |->
                      Row(years[i],
                          kinds[years[i]] \in {"forecast", "forecast_null"},
                          [c \in {"Emissions"} |->
                              IF kinds[years[i]] \in {"historical", "forecast"}
                              THEN Some(years[i] - FirstYear + 1) ELSE NaN])]]

DetailedFrames ==
    {DetailedFrame(kinds) : kinds \in [FirstYear..(FirstYear + NumYears - 1) -> RowKinds]}
        \ {DetailedFrame([y \in FirstYear..(FirstYear + NumYears - 1) |-> "absent"])}

\* SpecRows: one series with rows of every kind, gaps included
InitRows ==
    /\ \E allow \in BOOLEAN :
          NewGraph("Transportation", Some("kWh/as."), FALSE, FALSE, FALSE, allow)
    /\ \E df \in DetailedFrames :
          Given(df, "Emissions", Some("Emissions"), None, None, None)

SpecRows == InitRows /\ [][NextPage]_vars

\* SpecTicks: one series over a long range of years
InitTicks ==
    /\ NewGraph("Transportation", Some("GWh"), FALSE, FALSE, FALSE, FALSE)
    /\ \E df \in RegularFrames(FirstYear, FirstYear + TickSpan - 1) :
          df.rows # <<>> /\ Given(df, "Emissions", Some("Emissions"), None, None, None)

SpecTicks == InitTicks /\ [][NextPage]_vars

\* SpecColors: one series with every combination of the color arguments
GivenColors == {None, Some(40), Some(128), Some(230)}
GivenChanges == {None, Some(0), Some(-3), Some(3), Some(-6), Some(6)}

InitColors ==
    /\ \E name \in DOMAIN GHG_MAIN_SECTOR_COLORS, fill \in BOOLEAN :
          NewGraph(name, Some("kt (CO2e)"), TRUE, fill, FALSE, FALSE)
    /\ \E hc \in GivenColors, fc \in {None, Some(200)}, lc \in GivenChanges :
          Given(RegularFrame(FirstYear, FirstYear, FirstYear + 1), "Emissions",
                Some("Emissions"), hc, fc, lc)

SpecColors == InitColors /\ [][NextPage]_vars

---------------------------------------------------------------------------
(* SpecColumns: add_series with dataframes of every column layout *)

Layouts == {<<"Emissions", "Forecast">>, <<"Year", "Emissions", "Forecast">>,
            <<"Emissions">>, <<"Emissions", "Heat", "Forecast">>, <<"Forecast">>,
            <<"Year", "Forecast">>, <<"Year", "Heat">>}

LayoutFrame(columns, a, h, b) ==
    [columns |-> columns,
     rows |-> [i \in 1..(b - a + 1) |->
                  Row(a + i - 1, a + i - 1 > h,
                      [c \in Range(columns) \ {"Year", "Forecast"} |-> Some(1)])]]

\* frames of two years, and frames without rows
LayoutFrames ==
    {LayoutFrame(columns, FirstYear, h, b) :
        columns \in Layouts, h \in {FirstYear, FirstYear + 1},
        b \in {FirstYear - 1, FirstYear + 1}}

InitColumns ==
    /\ \E unit_name \in {Some(""), Some("kt")} :
          NewGraph("Transportation", unit_name, FALSE, FALSE, FALSE, FALSE)
    /\ Idle

NextColumns ==
    \/ \E df \in LayoutFrames,
          column_name \in {None, Some(""), Some("Emissions"), Some("Heat")} :
          AddSeries(df, "Emissions", column_name, None, None, None)
    \/ GetFigure

SpecColumns == InitColumns /\ [][NextColumns]_vars

---------------------------------------------------------------------------
(* SpecSector: pages/emissions.py make_sector_fig(df, name, metadata) *)

Subsector(i) == "Sub" \o Digits[i + 1]

\* a sector frame as render_page pivots it: subsector columns, then Forecast
SectorFrame(k, a, h, b) ==
    [columns |-> [i \in 1..(k + 1) |-> IF i <= k THEN Subsector(i) ELSE "Forecast"],
     rows |-> [i \in 1..(b - a + 1) |->
                  Row(a + i - 1, a + i - 1 > h,
                      [c \in {Subsector(n) : n \in 1..k} |-> Some(1)])]]

InitSector ==
    /\ \E name \in DOMAIN GHG_MAIN_SECTOR_COLORS :
          NewGraph(name, Some("kt"), TRUE, TRUE, TRUE, FALSE)
    /\ \E k \in 1..MaxSubsectors, a \in FirstYear..(FirstYear + SpanYears - 1) :
       \E b \in a..(FirstYear + SpanYears - 1) : \E h \in (a - 1)..b :
          sector = [df |-> SectorFrame(k, a, h, b), idx |-> 0, pc |-> "columns"]
    /\ call = [op |-> "init"]
    /\ raised = ""
    /\ fig = None

\* if len(df.columns) == 2: fig.add_series(df=df, trace_name=..., column_name='')
SectorAddOnly ==
    /\ sector # None /\ sector.pc = "columns"
    /\ Len(sector.df.columns) = 2
    /\ add_series(sector.df, "Paastot", Some(""), None, None, None)
    /\ sector' = [sector EXCEPT !.pc = IF raised' = "" THEN "figure" ELSE "done"]

\* one round of: for idx, col_name in enumerate(df.columns)
SectorAddColumn ==
    /\ sector # None /\ sector.pc = "columns"
    /\ Len(sector.df.columns) # 2
    /\ sector.idx < Len(sector.df.columns)
    /\ LET col_name == sector.df.columns[sector.idx + 1] IN
       IF col_name = "Forecast"
       THEN /\ UNCHANGED <<graph, series_list, min_year, max_year,
                           forecast_start_year, call, raised, fig>>
            /\ sector' = [sector EXCEPT !.idx = @ + 1]
       ELSE /\ add_series(sector.df, col_name, Some(col_name), None, None,
                          Some(-3 + 3 * sector.idx))
            /\ sector' = [sector EXCEPT !.idx = @ + 1,
                                        !.pc = IF raised' = "" THEN "columns" ELSE "done"]

\* return fig.get_figure()
SectorGetFigure ==
    /\ sector # None
    /\ \/ sector.pc = "figure"
       \/ sector.pc = "columns" /\ Len(sector.df.columns) # 2
                                /\ sector.idx >= Len(sector.df.columns)
    /\ call' = [op |-> "get_figure"]
    /\ LET got == get_figure(graph, series_list, min_year, max_year,
                             forecast_start_year)
       IN  /\ raised' = got.raised
           /\ fig' = IF got.raised = "" THEN Some(got.fig) ELSE None
    /\ sector' = [sector EXCEPT !.pc = "done"]
    /\ UNCHANGED <<graph, series_list, min_year, max_year, forecast_start_year>>

NextSector == SectorAddOnly \/ SectorAddColumn \/ SectorGetFigure

SpecSector == InitSector /\ [][NextSector]_vars

-----------
(* What the claims speak of *)

Returned == fig # None
Figure == fig[1]

\* the traces of the i-th added series, as get_figure asks for them
TracesOf(i) == get_traces_for_series(graph, series_list[i], i - 1).traces

RECURSIVE Concat(_)
Concat(lists) == IF lists = <<>> THEN <<>> ELSE Head(lists) \o Concat(Tail(lists))

HistoricalTraces(s, traces) == {k \in DOMAIN traces : traces[k].name = s.trace_name}
ForecastTraces(s, traces) ==
    {k \in DOMAIN traces : traces[k].name = s.trace_name \o " (enn.)"}

Cell(s, row) == row.cells[s.column_name[1]]

\* the series has a value in a non-forecast row of the years it plots
HasHistoricalValue(s) ==
    \E i \in DOMAIN s.df.rows :
        /\ ~s.df.rows[i].Forecast
        /\ s.df.rows[i].Year >= StartYear(graph, s.df)
        /\ Cell(s, s.df.rows[i]) # NaN

\* the series has a value in a forecast row
HasForecastValue(s) ==
    \E i \in DOMAIN s.df.rows : s.df.rows[i].Forecast /\ Cell(s, s.df.rows[i]) # NaN

\* the part of C2 that does not depend on which segments are empty
TraceShape(s, traces) ==
    /\ Len(traces) <= 2
    /\ Cardinality(HistoricalTraces(s, traces)) <= 1
    /\ Cardinality(ForecastTraces(s, traces)) <= 1
    /\ DOMAIN traces = HistoricalTraces(s, traces) \union ForecastTraces(s, traces)
    /\ Len(traces) = 2 => ForecastTraces(s, traces) = {1} /\ HistoricalTraces(s, traces) = {2}

InOrderOfAdding ==
    Figure.data = Concat([i \in DOMAIN series_list |-> TracesOf(i)])

\* C2 as stated: at most one historical and one forecast trace per series, a
\* segment without a value yields no trace, the forecast trace comes first, and
\* the figure's data is the per-series lists in the order of adding.
C2_AsStated ==
    Returned =>
        /\ \A i \in DOMAIN series_list :
              LET s == series_list[i] IN
              /\ TraceShape(s, TracesOf(i))
              /\ ~HasHistoricalValue(s) => HistoricalTraces(s, TracesOf(i)) = {}
              /\ ~HasForecastValue(s) => ForecastTraces(s, TracesOf(i)) = {}
        /\ InOrderOfAdding

\* what the code does where C2 fails: a forecast trace is emitted whenever the
\* series has a historical trace or a forecast value (it starts at the last
\* historical year); the rest is as C2 states it.
C2_TracesPerSeries ==
    Returned =>
        /\ \A i \in DOMAIN series_list :
              LET s == series_list[i] IN
              /\ TraceShape(s, TracesOf(i))
              /\ HistoricalTraces(s, TracesOf(i)) # {} <=> HasHistoricalValue(s)
              /\ ForecastTraces(s, TracesOf(i)) # {}
                    <=> (HasHistoricalValue(s) \/ HasForecastValue(s))
        /\ InOrderOfAdding

\* C6: every trace of the series at position index has fill 'tonexty' when stacked
\* and index > 0, 'tozeroy' when stacked or fill otherwise, no fill when neither;
\* mode 'none' exactly when fill; fillcolor exactly when fill, the line's color.
C6_FillRules ==
    Returned =>
        /\ InOrderOfAdding
        /\ \A i \in DOMAIN series_list : \A k \in DOMAIN TracesOf(i) :
              LET t == TracesOf(i)[k]
                  index == i - 1
              IN
              /\ graph.stacked /\ index > 0 => "fill" \in DOMAIN t /\ t.fill = "tonexty"
              /\ (graph.stacked \/ graph.fill) /\ ~(graph.stacked /\ index > 0)
                    => "fill" \in DOMAIN t /\ t.fill = "tozeroy"
              /\ ~graph.stacked /\ ~graph.fill => "fill" \notin DOMAIN t
              /\ t.mode = IF graph.fill THEN "none" ELSE "lines"
              /\ "fillcolor" \in DOMAIN t <=> graph.fill
              /\ graph.fill => t.fillcolor = t.line.color

\* a stacked, unfilled figure whose second series is filled to the first
C6_Witness ==
    /\ Returned /\ graph.stacked /\ ~graph.fill /\ Len(series_list) = 2
    /\ \E k \in DOMAIN Figure.data :
          Figure.data[k].fill = "tonexty" /\ Figure.data[k].mode = "lines"
    /\ Figure.data[1].fill = "tozeroy"

\* C7: of the two traces of a series, the historical one keeps stackgroup
\* 'history', its own fillcolor and an undashed line, and the forecast one has
\* stackgroup 'forecast', the forecast fillcolor and a dashed line exactly when
\* fill is off.
C7_HistoricalTraceKept ==
    Returned =>
        \A i \in DOMAIN series_list :
            Len(TracesOf(i)) = 2 =>
                LET s == series_list[i]
                    forecast == TracesOf(i)[1]
                    hist == TracesOf(i)[2]
                IN
                /\ hist.name = s.trace_name
                /\ \E a, b \in 1..Len(Figure.data) :
                      a < b /\ Figure.data[a] = forecast /\ Figure.data[b] = hist
                /\ graph.stacked => hist.stackgroup = "history"
                                    /\ forecast.stackgroup = "forecast"
                /\ ~graph.stacked => "stackgroup" \notin DOMAIN hist
                                     /\ "stackgroup" \notin DOMAIN forecast
                /\ graph.fill => hist.fillcolor = get_color(graph, s, FALSE).color
                                 /\ forecast.fillcolor = get_color(graph, s, TRUE).color
                /\ hist.line.color = get_color(graph, s, FALSE).color
                /\ "dash" \notin DOMAIN hist.line
                /\ "dash" \in DOMAIN forecast.line <=> ~graph.fill
                /\ ~graph.fill => forecast.line.dash = "dash"

\* a stacked figure with a dashed forecast trace before an undashed historical one
C7_Witness ==
    /\ Returned /\ graph.stacked /\ ~graph.fill /\ Len(Figure.data) >= 2
    /\ Figure.data[1].stackgroup = "forecast" /\ "dash" \in DOMAIN Figure.data[1].line
    /\ Figure.data[2].stackgroup = "history" /\ "dash" \notin DOMAIN Figure.data[2].line
    /\ Figure.data[1].line.color # Figure.data[2].line.color

AllYears == UNION {IndexYears(series_list[i].df) : i \in DOMAIN series_list}
HasHistory(df) == \E i \in DOMAIN df.rows : ~df.rows[i].Forecast
HistoryEnd(df) == SetMax({df.rows[i].Year : i \in {j \in DOMAIN df.rows : ~df.rows[j].Forecast}})

YearsRecorded ==
    (series_list # <<>> /\ \A i \in DOMAIN series_list : HasHistory(series_list[i].df)) =>
        /\ min_year = Some(SetMin(AllYears))
        /\ max_year = Some(SetMax(AllYears))
        /\ forecast_start_year =
              Some(SetMin({HistoryEnd(series_list[i].df) : i \in DOMAIN series_list}))
        /\ min_year[1] <= forecast_start_year[1]
        /\ forecast_start_year[1] <= max_year[1]

OneSeriesPerCall ==
    IF call'.op = "add_series" /\ raised' = ""
    THEN /\ Len(series_list') = Len(series_list) + 1
         /\ SubSeq(series_list', 1, Len(series_list)) = series_list
         /\ series_list'[Len(series_list')].df.rows = call'.df.rows
    ELSE series_list' = series_list

\* C9: when every added dataframe has a non-forecast row, series_list holds one
\* series per add_series call in call order, min_year and max_year are the
\* smallest and largest index year of all series, forecast_start_year is the
\* smallest of the series' last non-forecast years, and
\* min_year <= forecast_start_year <= max_year.
C9_YearsOfAllSeries == []YearsRecorded /\ [][OneSeriesPerCall]_vars

\* the second series starts earlier and its history ends earlier than the first's
C9_Witness ==
    /\ Len(series_list) = 2
    /\ \A i \in DOMAIN series_list : HasHistory(series_list[i].df)
    /\ min_year # IndexMin(series_list[1].df)
    /\ forecast_start_year # LastHistoricalYear(series_list[1].df)
    /\ forecast_start_year[1] < max_year[1]

---------------------------------------------------------------------------
(* Claims on one series (SpecRows, SpecTicks, SpecColors) *)

TheSeries == series_list[1]

\* the x values of the historical and of the forecast trace of the figure
HistoricalX ==
    UNION {Range(Figure.data[k].x) : k \in HistoricalTraces(TheSeries, Figure.data)}
ForecastX ==
    UNION {Range(Figure.data[k].x) : k \in ForecastTraces(TheSeries, Figure.data)}

RowsWithValue == {i \in DOMAIN TheSeries.df.rows :
                     Cell(TheSeries, TheSeries.df.rows[i]) # NaN}

\* the last year of the historical trace
LastPlottedHistoricalYear ==
    SetMax({TheSeries.df.rows[i].Year : i \in {j \in RowsWithValue :
               /\ ~TheSeries.df.rows[j].Forecast
               /\ TheSeries.df.rows[j].Year >= StartYear(graph, TheSeries.df)}})

\* C1 as stated: every row with a value is in exactly one trace, the historical
\* one when Forecast is false and the forecast one when Forecast is true.
C1_AsStated ==
    Returned =>
        \A i \in RowsWithValue :
            LET row == TheSeries.df.rows[i] IN
            IF row.Forecast
            THEN Str(row.Year) \in ForecastX /\ Str(row.Year) \notin HistoricalX
            ELSE Str(row.Year) \in HistoricalX /\ Str(row.Year) \notin ForecastX

\* the row of the dataframe that a point of a trace shows
RowOfPoint(trace, a) ==
    CHOOSE i \in DOMAIN TheSeries.df.rows : Str(TheSeries.df.rows[i].Year) = trace.x[a]

\* the points of a trace are rows of the dataframe in row order, each with its value
InRowOrder(trace) ==
    /\ Len(trace.y) = Len(trace.x)
    /\ \A a \in DOMAIN trace.x :
          /\ \E i \in RowsWithValue : Str(TheSeries.df.rows[i].Year) = trace.x[a]
          /\ trace.y[a] = Cell(TheSeries, TheSeries.df.rows[RowOfPoint(trace, a)])[1]
    /\ \A a, b \in DOMAIN trace.x : a < b => RowOfPoint(trace, a) < RowOfPoint(trace, b)

\* C1 amended: a forecast row with a value is in the forecast trace only; a
\* non-forecast row with a value is in the historical trace when its year is at
\* or after the start year and in no trace when it is before; the last year of
\* the historical trace is also in the forecast trace, and no other non-forecast
\* row is; each trace holds its rows once, in row order, with their values, and
\* nothing else.
C1_Segments ==
    Returned =>
        /\ \A i \in RowsWithValue :
              LET row == TheSeries.df.rows[i] IN
              IF row.Forecast
              THEN Str(row.Year) \in ForecastX /\ Str(row.Year) \notin HistoricalX
              ELSE IF row.Year >= StartYear(graph, TheSeries.df)
                   THEN /\ Str(row.Year) \in HistoricalX
                        /\ Str(row.Year) \in ForecastX
                              <=> row.Year = LastPlottedHistoricalYear
                   ELSE Str(row.Year) \notin HistoricalX /\ Str(row.Year) \notin ForecastX
        /\ HistoricalX \union ForecastX
              \subseteq {Str(TheSeries.df.rows[i].Year) : i \in RowsWithValue}
        /\ \A k \in DOMAIN Figure.data : InRowOrder(Figure.data[k])

\* a forecast year, two historical years and a forecast year: the third year is
\* in both traces, after the first forecast year and before the last
C1_Witness ==
    /\ Returned /\ Len(Figure.data) = 2 /\ graph.allow_nonconsecutive_years
    /\ Len(TheSeries.df.rows) = 4 /\ RowsWithValue = {1, 2, 3, 4}
    /\ Figure.data[2].x = <<Str(FirstYear + 1), Str(FirstYear + 2)>>
    /\ Figure.data[1].x = <<Str(FirstYear), Str(FirstYear + 2), Str(FirstYear + 3)>>

\* a historical year before a gap is in no trace
C1_GapWitness ==
    /\ Returned /\ ~graph.allow_nonconsecutive_years
    /\ \E i \in RowsWithValue :
          /\ ~TheSeries.df.rows[i].Forecast
          /\ Str(TheSeries.df.rows[i].Year) \notin HistoricalX \union ForecastX

DigitValue(c) == CHOOSE d \in 0..9 : Digits[d + 1] = c

\* int(text) of a list of digits
RECURSIVE ParseInt(_)
ParseInt(text) ==
    IF text = <<>> THEN 0
    ELSE 10 * ParseInt(SubSeq(text, 1, Len(text) - 1)) + DigitValue(text[Len(text)])

Ticks == Figure.layout.xaxis.tickvals
TickLabels == Figure.layout.xaxis.ticklabels
TickSet == Range(Ticks)

\* C3: when min_year <= forecast_start_year <= max_year, the ticks hold
\* min_year, max_year and forecast_start_year, increase strictly, lie in
\* [min_year, max_year], and ticklabels is the same list of years as strings.
C3_AnchorsKept ==
    (/\ Returned /\ forecast_start_year # NaN
     /\ min_year[1] <= forecast_start_year[1]
     /\ forecast_start_year[1] <= max_year[1]) =>
        /\ {min_year[1], max_year[1], forecast_start_year[1]} \subseteq TickSet
        /\ \A k \in 1..(Len(Ticks) - 1) : Ticks[k] < Ticks[k + 1]
        /\ \A k \in DOMAIN Ticks : min_year[1] <= Ticks[k] /\ Ticks[k] <= max_year[1]
        /\ Len(TickLabels) = Len(Ticks)
        /\ \A k \in DOMAIN Ticks :
              ParseInt(TickLabels[k]) = Ticks[k]

\* a forecast start that the thinning rule alone would have dropped
C3_Witness ==
    /\ Returned /\ forecast_start_year # NaN
    /\ min_year[1] < forecast_start_year[1] /\ forecast_start_year[1] < max_year[1]
    /\ forecast_start_year[1] % 5 # 0
    /\ \E k \in 1..(Len(Ticks) - 1) :
          Ticks[k + 1] = forecast_start_year[1] /\ Ticks[k + 1] - Ticks[k] < 3
    /\ Len(Ticks) < max_year[1] - min_year[1] + 1
    /\ TickLabels[1] = Str(min_year[1])

IsAnchor(year) ==
    Some(year) = min_year \/ Some(year) = forecast_start_year \/ Some(year) = max_year

PreviousTick(year) == SetMax({t \in TickSet : t < year})

\* C4: a year other than min_year, forecast_start_year and max_year is a tick
\* exactly when it is a multiple of 5 and at least 3 years after the tick before
\* it; so two consecutive ticks are at least 3 years apart unless the later one
\* is forecast_start_year or max_year.
C4_ThinningRule ==
    Returned =>
        /\ \A year \in min_year[1]..max_year[1] :
              ~IsAnchor(year) =>
                  (year \in TickSet <=> (year % 5 = 0 /\ year - PreviousTick(year) >= 3))
        /\ \A k \in 1..(Len(Ticks) - 1) :
              \/ Ticks[k + 1] - Ticks[k] >= 3
              \/ Some(Ticks[k + 1]) = forecast_start_year
              \/ Some(Ticks[k + 1]) = max_year

\* one multiple of 5 dropped for being too close to the tick before, one kept
C4_Witness ==
    /\ Returned
    /\ \E year \in min_year[1]..max_year[1] :
          ~IsAnchor(year) /\ year % 5 = 0 /\ year \notin TickSet
    /\ \E year \in min_year[1]..max_year[1] :
          ~IsAnchor(year) /\ year \in TickSet

Abs(n) == IF n < 0 THEN 0 - n ELSE n

\* C5 as stated, to the precision of a hex color (one grey level): without a
\* forecast_color, the forecast trace's color has the luminance Lh + (1 - Lh) * 0.3
\* of the historical trace's color.
C5_AsStated ==
    (Returned /\ TheSeries.forecast_color = None) =>
        Abs(Luminance(Figure.data[1].line.color)
                - Lighten(Luminance(Figure.data[2].line.color))) < 100

\* C5 where it holds: the same, unless both historical_color and a non-zero
\* luminance_change are given.
C5_ExceptChangedGivenColor ==
    (/\ Returned /\ TheSeries.forecast_color = None
     /\ ~(TheSeries.historical_color # None /\ TruthyNum(TheSeries.luminance_change))) =>
        Abs(Luminance(Figure.data[1].line.color)
                - Lighten(Luminance(Figure.data[2].line.color))) < 100

---------------------------------------------------------------------------
(* Claims on add_series and make_sector_fig (SpecColumns, SpecSector) *)

ValueColumns(df) == Range(df.columns) \ {"Forecast", "Year"}

ColumnGuessed ==
    (call.op = "add_series" /\ ~TruthyStr(call.column_name)) =>
        /\ raised \in {"", "AssertionError"}
        /\ raised = "" <=> /\ "Forecast" \in Range(call.df.columns)
                           /\ Cardinality(ValueColumns(call.df)) = 1
        /\ raised = "" =>
              /\ series_list # <<>>
              /\ series_list[Len(series_list)].column_name[1] \in ValueColumns(call.df)
              /\ series_list[Len(series_list)].df.rows = call.df.rows

NothingRecordedOnFailure ==
    (call'.op = "add_series" /\ raised' = "AssertionError") =>
        UNCHANGED <<series_list, min_year, max_year, forecast_start_year>>

\* C8: without a column_name (None or ''), add_series succeeds only if the
\* dataframe has a Forecast column and exactly one other column besides Year,
\* which becomes the series' column_name; otherwise it fails with an
\* AssertionError and series_list, min_year, max_year and forecast_start_year
\* stay as they were.
C8_ColumnSelection == []ColumnGuessed /\ [][NothingRecordedOnFailure]_vars

\* a call without column_name that failed on a graph that already has a series
C8_Witness ==
    /\ call.op = "add_series" /\ call.column_name = Some("")
    /\ raised = "AssertionError"
    /\ "Forecast" \in Range(call.df.columns)
    /\ Len(series_list) = 1 /\ series_list[1].column_name = Some("Emissions")
    /\ min_year = Some(FirstYear)

\* C10 as stated: for any number of subsector columns every color of every
\* subsector series can be computed (its luminance stays in [0, 1]), and the
\* figure is produced.
C10_AsStated ==
    /\ \A i \in DOMAIN series_list :
          /\ get_color(graph, series_list[i], FALSE).raised = ""
          /\ get_color(graph, series_list[i], TRUE).raised = ""
    /\ (sector # None /\ sector.pc = "done") => raised = ""

\* C10 where it holds: up to column position 4 (luminance_change 0.9)
C10_UpToFiveColumns ==
    (sector # None /\ Len(sector.df.columns) <= 5) => C10_AsStated

====
